---- MODULE Spec2Model ----
(***************************************************************************)
(* A model of the continuous multi-user discovery engine                   *)
(* (src/src/continuous_search_engine.py) together with the SQLite store    *)
(* it writes (src/src/multi_user_system.py) and the operational entry      *)
(* points that run cycles on other threads                                 *)
(* (src/src/search_engine_manager.py) and the scraper it calls             *)
(* (src/src/linkedin_scraper_free.py).                                     *)
(*                                                                         *)
(* Text is abstracted to sets of terms: "kw.lower() in title" is           *)
(* membership of the term in the set; a regular-expression search finds a  *)
(* keyword in the terms RegexMatches lists.  The clock is in seconds.      *)
(*                                                                         *)
(* Specifications:                                                         *)
(*   SpecRate      check_rate_limit called sequentially as time passes     *)
(*   SpecRateConc  its statements interleaved between two threads          *)
(*   SpecSeq       cycles of the scheduler thread, one after the other     *)
(*   Spec          scheduler cycles interleaved with a run-now cycle       *)
(*   SpecConfig    cycles of a user whose configuration may be unusable    *)
(*   SpecAdapter   one call into the scraper at a time                     *)
(*   SpecAdapterFair  the same, the call always being given the processor  *)
(*   SpecSched     start and stop requests, timers and scheduler threads   *)
(*   SpecSchedFair the same, every scheduler thread always being run       *)
(*   SpecProbe     the scoring and filtering functions called on their own *)
(*   SpecCost      one cycle of a user with many keywords and locations    *)
(*   SpecDedup     scraper calls followed by cycles of the scheduler       *)
(*   SpecStagger   the timers of the users and the scheduler's ticks       *)
(*   SpecStore     two threads' cycles over a store that may raise         *)
(***************************************************************************)
EXTENDS Integers, Sequences, FiniteSets, Bags, TLC

(***************************************************************************)
(* Bounds of the model.                                                    *)
(***************************************************************************)
\* cycles the scheduler thread starts when it runs alone
MaxCycles == 3
\* cycles the scheduler thread starts when a run-now thread runs beside it
MaxConcCycles == 2
\* cycles the admin ("run now") thread starts
MaxRunNow == 1
\* the clock of the cycle specifications stops at MaxDays days
MaxDays == 2
\* the clock of the rate-limiter specifications stops at MaxSeconds seconds
MaxSeconds == 120
\* check_rate_limit calls granted in the concurrent rate-limiter specification
MaxGrants == 12
\* the largest max_results a caller passes to method_1_guest_api
MaxAdapterResults == 3
\* recurring timers registered on the schedule module in one run
MaxTimers == 4
\* the clock of the scoring specification stops at MaxProbeDays days
MaxProbeDays == 3
\* rows of the frames handed to filter_jobs_for_user on its own
MaxFrame == 2
\* cycles the scheduler thread starts in the cost specification
MaxCostCycles == 1
\* the search_frequency_minutes of the users' criteria in the timing specification
MaxFrequency == 2
\* the clock of the timing specification stops at MaxStaggerSeconds seconds
MaxStaggerSeconds == 300
\* cycles each thread starts in the store specification
MaxStoreCycles == 1
\* times the store goes from succeeding to raising or back in the store specification
MaxFaults == 2

(***************************************************************************)
(* Program constants.                                                      *)
(***************************************************************************)
\* self.linkedin_requests_per_minute = 10
linkedin_requests_per_minute == 10
\* timedelta(minutes=1), in seconds
RateWindow == 60
\* timedelta.days: one day in seconds
SecondsPerDay == 86400
\* jobs_df.head(10) in create_job_email_html
EmailJobLimit == 10
\* max_results=10 passed to method_1_guest_api by the cycle
CycleMaxResults == 10
\* preferences.keywords[:3]
KeywordCap == 3
\* preferences.locations[:2]
LocationCap == 2
\* time.sleep(30) of run_scheduler
TickSeconds == 30
\* get_user_job_history(user_id, limit=50)
HistoryLimit == 50
\* score = 50
BaseScore == 50
\* start += 25
PageStep == 25
\* while ... and start < 200
StartLimit == 200

Threads == {"sched", "admin"}
Users == {"u1", "u2"}

\* None / NaN: an absent date, salary or job id
NoValue == -1
\* no user
NoUser == "none"
\* get_user_preferences returned None
NoCriteria ==
    [keywords |-> << >>, locations |-> << >>, exclude_keywords |-> << >>,
     min_salary |-> 0, linkedin_quality_threshold |-> 0, sites_enabled |-> {},
     present |-> FALSE]
\* no cycle of the user has run the pipeline yet
NeverRan == [ran |-> FALSE, fetched |-> << >>, at |-> 0, failed |-> {}]
\* job_url '' : a posting without URL
NoUrl == 0

(***************************************************************************)
(* Sequence helpers.                                                       *)
(***************************************************************************)
RECURSIVE SeqFilter(_, _)
\* [x for x in s if x in keep], order preserved
SeqFilter(s, keep) ==
    IF s = << >> THEN << >>
    ELSE IF Head(s) \in keep THEN << Head(s) >> \o SeqFilter(Tail(s), keep)
         ELSE SeqFilter(Tail(s), keep)

Range(s) == { s[i] : i \in DOMAIN s }

Min(a, b) == IF a <= b THEN a ELSE b
Max(a, b) == IF a >= b THEN a ELSE b

\* s[:n]
Take(s, n) == SubSeq(s, 1, Min(n, Len(s)))

RECURSIVE CountWhere(_, _)
\* number of positions of s whose element is in keep
CountWhere(s, keep) ==
    IF s = << >> THEN 0
    ELSE (IF Head(s) \in keep THEN 1 ELSE 0) + CountWhere(Tail(s), keep)

(***************************************************************************)
(* Scoring and filtering (pure).  A posting is a record                    *)
(*   [job_url, title, company, location, posted_date, salary_min]          *)
(* with title, company and location sets of terms.                         *)
(***************************************************************************)
reputable_companies ==
    {"google", "microsoft", "amazon", "apple", "meta", "netflix", "uber", "airbnb"}

\* (datetime.now() - job_date).days : floor division
days_old(posted_date, clock) == (clock - posted_date) \div SecondsPerDay

FreshnessBonus(job, clock) ==
    IF job.posted_date = NoValue THEN 0
    ELSE IF days_old(job.posted_date, clock) <= 1 THEN 10
    ELSE IF days_old(job.posted_date, clock) <= 3 THEN 5
    ELSE 0

calculate_quality_score(job, prefs, clock) ==
    LET keyword_matches == CountWhere(prefs.keywords, job.title)
        kw == IF keyword_matches > 0 THEN Min(30, keyword_matches * 10) ELSE 0
        loc == IF \E i \in DOMAIN prefs.locations : prefs.locations[i] \in job.location
               THEN 20 ELSE 0
        comp == IF job.company \cap reputable_companies # {} THEN 10 ELSE 0
        penalty == 20 * CountWhere(prefs.exclude_keywords, job.title)
        score == BaseScore + kw + loc + comp + FreshnessBonus(job, clock) - penalty
    IN  Min(100, Max(0, score))

\* a DataFrame row: the posting with its quality_score column
Scored(job, prefs, clock) ==
    ("quality_score" :> calculate_quality_score(job, prefs, clock)) @@ job

\* the terms in which str.contains finds the exclude keyword, which it reads
\* as a regular expression: '.net' is any character followed by 'net'
RegexMatches(keyword) ==
    IF keyword = ".net" THEN {".net", "internet"} ELSE {keyword}

\* a quality filter that keeps the rows at or below the threshold
PassesFilterBelow(row, prefs) ==
    /\ row.quality_score <= prefs.linkedin_quality_threshold
    /\ \/ prefs.min_salary <= 0
       \/ row.salary_min = NoValue
       \/ row.salary_min >= prefs.min_salary
    /\ ~ \E i \in DOMAIN prefs.exclude_keywords :
            row.title \cap RegexMatches(prefs.exclude_keywords[i]) # {}

\* the row-wise predicate of filter_jobs_for_user
PassesFilter(row, prefs) ==
    /\ row.quality_score >= prefs.linkedin_quality_threshold
    /\ \/ prefs.min_salary <= 0
       \/ row.salary_min = NoValue
       \/ row.salary_min >= prefs.min_salary
    /\ ~ \E i \in DOMAIN prefs.exclude_keywords :
            row.title \cap RegexMatches(prefs.exclude_keywords[i]) # {}

filter_jobs_for_user(jobs_df, prefs) ==
    SeqFilter(jobs_df, { r \in Range(jobs_df) : PassesFilter(r, prefs) })

RECURSIVE DropDuplicatesFrom(_, _)
DropDuplicatesFrom(s, seen) ==
    IF s = << >> THEN << >>
    ELSE IF Head(s).job_url \in seen THEN DropDuplicatesFrom(Tail(s), seen)
         ELSE << Head(s) >> \o DropDuplicatesFrom(Tail(s), seen \cup {Head(s).job_url})

\* combined_jobs.drop_duplicates(subset=['job_url'], keep='first')
drop_duplicates(s) == DropDuplicatesFrom(s, {})

RECURSIVE Concat(_)
\* pd.concat(all_jobs, ignore_index=True)
Concat(frames) == IF frames = << >> THEN << >> ELSE Head(frames) \o Concat(Tail(frames))

Urls(s) == [ i \in DOMAIN s |-> s[i].job_url ]

(***************************************************************************)
(* The rate limiter (pure part).                                           *)
(***************************************************************************)
\* [req_time for req_time in requests if now - req_time < timedelta(minutes=1)]
PruneOld(requests, clock) ==
    SelectSeq(requests, LAMBDA req_time : clock - req_time < RateWindow)

\* the ceiling test written with > : one request too many is let through
AtCeilingOffByOne(requests) == Len(requests) > linkedin_requests_per_minute

\* len(self.linkedin_last_requests) >= self.linkedin_requests_per_minute
AtCeiling(requests) == Len(requests) >= linkedin_requests_per_minute

\* check_rate_limit executed without interruption: the returned value and
\* the new self.linkedin_last_requests
check_rate_limit(requests, clock) ==
    LET pruned == PruneOld(requests, clock)
    IN  IF AtCeiling(pruned)
        THEN [ok |-> FALSE, requests |-> pruned]
        ELSE [ok |-> TRUE, requests |-> Append(pruned, clock)]

(***************************************************************************)
(* State.                                                                  *)
(***************************************************************************)
VARIABLES
    now,                      \* the wall clock read by datetime.now(), seconds
    linkedin_last_requests,   \* self.linkedin_last_requests
    granted,                  \* history: bag of the call times check_rate_limit granted
    last_call,                \* history: the last completed sequential check_rate_limit call
    rl,                       \* per thread: position inside an interleaved check_rate_limit
    budget,                   \* per thread: the cycles it starts in this run
    users,                    \* users table: user id -> [is_active]
    preferences,              \* user_preferences table: user id -> criteria
    email_configured,         \* config['email']['sender_email'] is set
    upstream,                 \* what the job source answers per (keyword, location)
    store_available,          \* sqlite3 operations succeed
    faults,                   \* times the store went from succeeding to raising or back
    jobs,                     \* jobs table
    user_jobs,                \* user_jobs table
    pc,                       \* per thread: position inside search_jobs_for_user
    cycle,                    \* per thread: locals of search_jobs_for_user
    outbox,                   \* history: bag of the send_email calls made
    last_done,                \* history: per user, the last cycle that ran the pipeline
    undelivered,              \* history: <<user, url>> whose digest failed, not sent since
    ad,                       \* the locals of one call into LinkedInScraperFree
    is_running,               \* self.is_running
    schedule_jobs,            \* schedule.jobs: the recurring timers registered
    registered,               \* history: the number of timers ever registered
    loops,                    \* per scheduler thread: position inside run_scheduler
    web,                      \* per web request thread: position inside start_continuous_search
    probe                     \* the arguments and results of calls of the pure functions

vars == << now, linkedin_last_requests, granted, last_call, rl, budget, users, preferences,
           email_configured, upstream, store_available, faults, jobs, user_jobs, pc, cycle,
           outbox, last_done, undelivered, ad, is_running, schedule_jobs, registered,
           loops, web, probe >>

rateVars == << linkedin_last_requests, granted, last_call, rl >>
setupVars == << budget, users, preferences, email_configured, upstream >>
storeVars == << jobs, user_jobs >>
cycleVars == << pc, cycle, outbox, last_done, undelivered >>
schedVars == << is_running, schedule_jobs, registered, loops, web >>
extVars == << ad, schedVars, probe >>
coreVars == << now, rateVars, setupVars, store_available, faults, storeVars, cycleVars >>

(***************************************************************************)
(* The store (SQLite tables created by MultiUserManager.init_database).    *)
(*   jobs row      [id, external_id, job_url, site_source]                 *)
(*   user_jobs row [user_id, job_id, is_notified, created]                 *)
(* created is the insertion rank standing for created_at.                  *)
(***************************************************************************)
\* a jobs table whose only unique column is the primary key
JobsKeyIsId(row) == << row.id, row.site_source >>

\* UNIQUE(external_id, site_source) of table jobs
JobsUniqueKey(row) == << row.external_id, row.site_source >>

\* UNIQUE(user_id, job_id) of table user_jobs
UserJobsUniqueKey(row) == << row.user_id, row.job_id >>

\* str(uuid.uuid4()): an id no row has
NewJobId(table) == Cardinality(table) + 1

\* INSERT OR IGNORE INTO jobs: the table afterwards
InsertOrIgnoreJob(table, row) ==
    IF \E r \in table : JobsUniqueKey(r) = JobsUniqueKey(row) \/ r.id = row.id
    THEN table ELSE table \cup {row}

\* INSERT OR IGNORE INTO user_jobs: the table afterwards
InsertOrIgnoreUserJob(table, row) ==
    IF \E r \in table : UserJobsUniqueKey(r) = UserJobsUniqueKey(row)
    THEN table ELSE table \cup {row}

\* job_data built in save_jobs_for_user: external_id is the URL, site_source
\* defaults to 'linkedin' (the scraper's rows carry 'site', not 'site_source')
JobRow(id, job) ==
    [id |-> id, external_id |-> job.job_url, job_url |-> job.job_url,
     site_source |-> "linkedin"]

\* SELECT id FROM jobs WHERE job_url = ? ; fetchone
get_existing_job_id(table, job_url) ==
    IF \E r \in table : r.job_url = job_url
    THEN (CHOOSE r \in table : r.job_url = job_url).id
    ELSE NoValue

\* save_job_to_db: [jobs |-> table afterwards, job_id |-> returned id or NoValue]
\* a save that hands out the new id although the INSERT raised
save_job_to_db_unchecked(table, job, available) ==
    IF ~ available THEN [jobs |-> table, job_id |-> NewJobId(table)]
    ELSE LET job_id == NewJobId(table)
             after == InsertOrIgnoreJob(table, JobRow(job_id, job))
         IN  IF after # table
             THEN [jobs |-> after, job_id |-> job_id]
             ELSE [jobs |-> after, job_id |-> get_existing_job_id(after, job.job_url)]

save_job_to_db(table, job, available) ==
    IF ~ available THEN [jobs |-> table, job_id |-> NoValue]
    ELSE LET job_id == NewJobId(table)
             after == InsertOrIgnoreJob(table, JobRow(job_id, job))
         IN  IF after # table
             THEN [jobs |-> after, job_id |-> job_id]
             ELSE [jobs |-> after, job_id |-> get_existing_job_id(after, job.job_url)]

\* create_user_job_relationship:
\* [user_jobs |-> table afterwards, ok |-> returned value]
\* a link write that answers True although the INSERT raised
create_user_job_relationship_always(table, user_id, job_id, available) ==
    IF ~ available THEN [user_jobs |-> table, ok |-> TRUE]
    ELSE [user_jobs |-> InsertOrIgnoreUserJob(table,
                            [user_id |-> user_id, job_id |-> job_id,
                             is_notified |-> FALSE,
                             created |-> Cardinality(table) + 1]),
          ok |-> TRUE]

create_user_job_relationship(table, user_id, job_id, available) ==
    IF ~ available THEN [user_jobs |-> table, ok |-> FALSE]
    ELSE [user_jobs |-> InsertOrIgnoreUserJob(table,
                            [user_id |-> user_id, job_id |-> job_id,
                             is_notified |-> FALSE,
                             created |-> Cardinality(table) + 1]),
          ok |-> TRUE]

\* a status lookup that never finds the link
get_user_job_status_none(jobsT, linksT, user_id, job_url, available) == FALSE

\* get_user_job_status: TRUE iff a row is returned (None on a store error)
get_user_job_status(jobsT, linksT, user_id, job_url, available) ==
    /\ available
    /\ \E uj \in linksT : \E j \in jobsT :
          uj.job_id = j.id /\ uj.user_id = user_id /\ j.job_url = job_url

\* get_user_job_history(user_id, limit): the URLs of the rows returned
get_user_job_history(jobsT, linksT, user_id, limit) ==
    LET mine == { uj \in linksT : uj.user_id = user_id /\ \E j \in jobsT : j.id = uj.job_id }
        top == { uj \in mine : Cardinality({ q \in mine : q.created > uj.created }) < limit }
    IN  { j.job_url : j \in { r \in jobsT : \E uj \in top : uj.job_id = r.id } }

(***************************************************************************)
(* Users, criteria and the upstream job source used by the specifications. *)
(***************************************************************************)
Posting(url, title, company, location, posted) ==
    [job_url |-> url, title |-> title, company |-> company, location |-> location,
     posted_date |-> posted, salary_min |-> NoValue]

Criteria(keywords, locations, exclude, threshold) ==
    [keywords |-> keywords, locations |-> locations, exclude_keywords |-> exclude,
     min_salary |-> 80000, linkedin_quality_threshold |-> threshold,
     sites_enabled |-> {"linkedin"}, present |-> TRUE]

AllPairs == {"python", "java"} \X {"remote"}

SmallPreferences ==
    [u \in Users |->
        IF u = "u1" THEN Criteria(<< "python", "java" >>, << "remote" >>, << "senior" >>, 70)
        ELSE Criteria(<< "python" >>, << "remote" >>, << >>, 50)]

\* 'python'/'remote' answers two postings; 'java'/'remote' repeats the first,
\* adds one without URL and one with an excluded title
SmallUpstream ==
    [p \in AllPairs |->
        IF p[1] = "python"
        THEN << Posting(1, {"python"}, {"google"}, {"remote"}, 0),
                Posting(2, {"python"}, {"acme"}, {"toronto"}, 0) >>
        ELSE << Posting(1, {"python"}, {"google"}, {"remote"}, 0),
                Posting(NoUrl, {"java"}, {"acme"}, {"remote"}, 0),
                Posting(3, {"java", "senior"}, {"acme"}, {"remote"}, 0) >>]

IdleCall == [called |-> FALSE, time |-> 0, ok |-> FALSE, young_before |-> 0,
             requests_before |-> << >>]

IdleRl == [pc |-> "idle", now |-> 0, snapshot |-> << >>]

\* no send_email call was made
NoDigest == [user_id |-> NoUser, count |-> 0, listed |-> << >>, ok |-> FALSE]

IdleCycle ==
    [user_id |-> NoUser, n |-> 0, started |-> 0, pairs |-> << >>, all_jobs |-> << >>,
     combined_jobs |-> << >>, i |-> 0, job_id |-> NoValue, new_jobs |-> << >>,
     fetched |-> << >>, acquired |-> 0, requests |-> 0, links_created |-> 0,
     send_attempts |-> 0, digest |-> NoDigest, net_new |-> {}, overlap |-> FALSE, prev |-> NeverRan,
     ran |-> FALSE, rows |-> {}, handled |-> {}, failed |-> {}]

\* no call into the scraper is in progress
\* (history fields: called, the methods invoked; offsets, the offsets of the
\* requests that were answered otherwise than by 429; exit, why method 1 left
\* its loop; m1_yield, the number of jobs method 1 returned)
IdleAdapter ==
    [pc |-> "idle", entry |-> "none", max_results |-> 0, jobs |-> << >>, start |-> 0,
     all_jobs |-> << >>, result |-> << >>, swallowed |-> 0,
     called |-> << >>, offsets |-> << >>, exit |-> "none", m1_yield |-> 0]

\* a scheduler thread that was not started (or has left run_scheduler);
\* job and user_id are the timer being run, after_stop and twice record how
\* that run began
IdleLoop == [pc |-> "off", pending |-> << >>, job |-> 0, user_id |-> NoUser,
             after_stop |-> FALSE, twice |-> FALSE]

\* no pure function was called
NoProbe == [kind |-> "none"]

\* the max_results values callers pass
AdapterMaxResults == {1, MaxAdapterResults}

Loops == {"l1", "l2"}
WebThreads == {"w1", "w2"}

\* everything but the users table and the per-run setup
InitBase ==
    /\ ad = IdleAdapter
    /\ is_running = FALSE
    /\ schedule_jobs = {}
    /\ registered = 0
    /\ loops = [l \in Loops |-> IdleLoop]
    /\ web = [w \in WebThreads |-> "idle"]
    /\ probe = NoProbe
    /\ now = 0
    /\ linkedin_last_requests = << >>
    /\ granted = EmptyBag
    /\ last_call = IdleCall
    /\ rl = [t \in Threads |-> IdleRl]
    /\ store_available = TRUE
    /\ faults = 0
    /\ jobs = {}
    /\ user_jobs = {}
    /\ pc = [t \in Threads |-> "idle"]
    /\ cycle = [t \in Threads |-> IdleCycle]
    /\ outbox = EmptyBag
    /\ last_done = [u \in Users |-> NeverRan]
    /\ undelivered = {}

\* every user is active
InitCommon ==
    /\ InitBase
    /\ users = [u \in Users |-> [is_active |-> TRUE]]

\* 'python'/'remote' answers postings 1..10 and 'java'/'remote' postings
\* 9..12: a user searching both is offered 12 distinct postings
LargeUpstream ==
    [p \in AllPairs |->
        IF p[1] = "python"
        THEN [ k \in 1 .. 10 |-> Posting(k, {"python"}, {"acme"}, {"remote"}, 0) ]
        ELSE [ k \in 1 .. 4 |-> Posting(k + 8, {"java"}, {"acme"}, {"remote"}, 0) ]]

\* the scheduler thread alone
Init ==
    /\ InitCommon
    /\ budget = [t \in Threads |-> IF t = "sched" THEN MaxCycles ELSE 0]
    /\ preferences = SmallPreferences
    /\ upstream \in {SmallUpstream, LargeUpstream}
    /\ email_configured \in BOOLEAN

(***************************************************************************)
(* The clock.                                                              *)
(***************************************************************************)
Tick(d, limit) ==
    /\ now + d <= limit
    /\ now' = now + d
    /\ UNCHANGED << rateVars, setupVars, extVars, store_available, faults, storeVars, cycleVars >>

(***************************************************************************)
(* The rate limiter, called sequentially.                                  *)
(***************************************************************************)
\* number of recorded call times younger than the window at time clock
YoungCount(bag, clock) ==
    BagCardinality([e \in { x \in BagToSet(bag) : clock - x < RateWindow } |-> bag[e]])

RateCall ==
    LET r == check_rate_limit(linkedin_last_requests, now)
    IN  /\ linkedin_last_requests' = r.requests
        /\ granted' = IF r.ok THEN granted (+) SetToBag({now}) ELSE granted
        /\ last_call' = [called |-> TRUE, time |-> now, ok |-> r.ok,
                         young_before |-> YoungCount(granted, now),
                         requests_before |-> linkedin_last_requests]
        /\ UNCHANGED << now, rl, setupVars, extVars, store_available, faults, storeVars, cycleVars >>

NextRate ==
    \/ RateCall
    \/ \E d \in {30} : Tick(d, MaxSeconds)

InitRate ==
    /\ InitCommon
    /\ budget = [t \in Threads |-> 0]
    /\ preferences = SmallPreferences
    /\ upstream = SmallUpstream
    /\ email_configured = TRUE

SpecRate == InitRate /\ [][NextRate]_vars

(***************************************************************************)
(* The rate limiter, called from several threads: the statements of        *)
(* check_rate_limit interleave (the method takes no lock).                 *)
(***************************************************************************)
\* now = datetime.now(); the comprehension reads self.linkedin_last_requests
RLRead(t) ==
    /\ rl[t].pc = "idle"
    /\ BagCardinality(granted) < MaxGrants
    /\ rl' = [rl EXCEPT ![t] = [pc |-> "assign", now |-> now,
                                snapshot |-> PruneOld(linkedin_last_requests, now)]]
    /\ UNCHANGED << now, linkedin_last_requests, granted, last_call, setupVars, extVars,
                    store_available, faults, storeVars, cycleVars >>

\* self.linkedin_last_requests = [...]
RLAssign(t) ==
    /\ rl[t].pc = "assign"
    /\ linkedin_last_requests' = rl[t].snapshot
    /\ rl' = [rl EXCEPT ![t].pc = "check"]
    /\ UNCHANGED << now, granted, last_call, setupVars, extVars, store_available, faults, storeVars,
                    cycleVars >>

\* if len(self.linkedin_last_requests) >= ...: return False
RLCheck(t) ==
    /\ rl[t].pc = "check"
    /\ rl' = [rl EXCEPT ![t].pc = IF AtCeiling(linkedin_last_requests)
                                  THEN "idle" ELSE "append"]
    /\ UNCHANGED << now, linkedin_last_requests, granted, last_call, setupVars, extVars,
                    store_available, faults, storeVars, cycleVars >>

\* self.linkedin_last_requests.append(now); return True
RLAppend(t) ==
    /\ rl[t].pc = "append"
    /\ linkedin_last_requests' = Append(linkedin_last_requests, rl[t].now)
    /\ granted' = granted (+) SetToBag({rl[t].now})
    /\ rl' = [rl EXCEPT ![t].pc = "idle"]
    /\ UNCHANGED << now, last_call, setupVars, extVars, store_available, faults, storeVars, cycleVars >>

NextRateConc ==
    \/ \E t \in Threads : RLRead(t) \/ RLAssign(t) \/ RLCheck(t) \/ RLAppend(t)
    \/ \E d \in {60} : Tick(d, MaxSeconds)

SpecRateConc == InitRate /\ [][NextRateConc]_vars

(***************************************************************************)
(* Properties of the rate limiter.                                         *)
(***************************************************************************)
\* granted calls whose time lies in the window (w - 60, w]
GrantedInWindow(w) ==
    BagCardinality([e \in { x \in BagToSet(granted) : w - RateWindow < x /\ x <= w }
                      |-> granted[e]])

CeilingHolds ==
    \A w \in BagToSet(granted) : GrantedInWindow(w) <= linkedin_requests_per_minute

\* C8: with check_rate_limit called sequentially at non-decreasing times, no
\* sliding 60-second window (w - 60, w] holds more than 10 granted calls; a
\* call is granted, and its time recorded, iff fewer than 10 recorded times
\* were younger than 60 seconds; a refused call records nothing.
C8_RateCeilingSequential ==
    /\ CeilingHolds
    /\ last_call.called =>
          /\ last_call.ok <=> (last_call.young_before < linkedin_requests_per_minute)
          /\ last_call.ok =>
                /\ linkedin_last_requests # << >>
                /\ linkedin_last_requests[Len(linkedin_last_requests)] = last_call.time
                /\ YoungCount(granted, last_call.time) = last_call.young_before + 1
          /\ ~ last_call.ok =>
                /\ Len(linkedin_last_requests) <= Len(last_call.requests_before)
                /\ YoungCount(granted, last_call.time) = last_call.young_before

\* C8 witness: a call is refused at the ceiling after the window has slid
\* at least once (more than 10 calls were granted in all)
C8_Witness ==
    /\ last_call.called
    /\ ~ last_call.ok
    /\ BagCardinality(granted) > linkedin_requests_per_minute

\* number of entries of the request list equal to e
CopiesInList(e) == Cardinality({ i \in DOMAIN linkedin_last_requests :
                                    linkedin_last_requests[i] = e })

\* C9: under arbitrary interleaving of the prune, length check and append of
\* concurrent check_rate_limit calls the ceiling holds, and once the calls
\* have returned every granted time still younger than 60 seconds is in
\* the request list (none was lost to a concurrent prune).
C9_RateCeilingConcurrent ==
    /\ CeilingHolds
    /\ (\A t \in Threads : rl[t].pc = "idle") =>
          \A e \in BagToSet(granted) :
              now - e < RateWindow => CopiesInList(e) >= CopiesIn(e, granted)

(***************************************************************************)
(* One cycle: search_jobs_for_user, run by a thread.  The scheduler thread *)
(* runs the scheduled cycles; test_user_search starts a cycle on another   *)
(* thread of the same engine.                                              *)
(***************************************************************************)
Running(t) == pc[t] \notin {"idle", "done"}

\* a search loop over every keyword and every location
PairsOfAll(prefs) ==
    LET kws == prefs.keywords
        locs == prefs.locations
    IN  [ i \in 1 .. (Len(kws) * Len(locs)) |->
            << kws[((i - 1) \div Len(locs)) + 1], locs[((i - 1) % Len(locs)) + 1] >> ]

\* for keyword in preferences.keywords[:3]: for location in preferences.locations[:2]
PairsOf(prefs) ==
    LET kws == Take(prefs.keywords, KeywordCap)
        locs == Take(prefs.locations, LocationCap)
    IN  [ i \in 1 .. (Len(kws) * Len(locs)) |->
            << kws[((i - 1) \div Len(locs)) + 1], locs[((i - 1) % Len(locs)) + 1] >> ]

\* what one method_1_guest_api call can return for an upstream answer:
\* its cards up to max_results, or nothing when the request fails
method_1_guest_api(answer, max_results) == { Take(answer, max_results), << >> }

\* the lists one pass of the search loop can obtain for a pair
AdapterResults(prefs, pair) ==
    IF "linkedin" \in prefs.sites_enabled
    THEN method_1_guest_api(upstream[pair], CycleMaxResults)
    ELSE { << >> }

\* the conditions under which send_job_notifications reaches send_email:
\* len(new_jobs) > 0, not jobs_df.empty, and a configured sender
ReachesSendNoEmptyGuard(new_jobs, configured) == configured

ReachesSend(new_jobs, configured) ==
    /\ Len(new_jobs) > 0
    /\ new_jobs # << >>
    /\ configured

\* a body that lists every row of the frame
EmailListedAll(new_jobs) == Urls(new_jobs)

\* create_job_email_html: the postings listed in the body
EmailListed(new_jobs) == Urls(Take(new_jobs, EmailJobLimit))

\* "Mark jobs as notified": the loop body is pass
MarkNotified(table, user_id, new_jobs) == table

\* the end of search_jobs_for_user
\* what remains of a cycle's locals once it has returned: the history fields
Returned(c) ==
    [c EXCEPT !.pairs = << >>, !.all_jobs = << >>, !.combined_jobs = << >>, !.i = 0,
              !.job_id = NoValue]

Done(t, c) ==
    /\ pc' = [pc EXCEPT ![t] = "done"]
    /\ cycle' = [cycle EXCEPT ![t] = Returned(c)]
    /\ last_done' = IF c.ran
                    THEN [last_done EXCEPT ![c.user_id] =
                             [ran |-> TRUE, fetched |-> c.fetched, at |-> now,
                              failed |-> c.failed]]
                    ELSE last_done

StartCycle(t, u) ==
    /\ ~ Running(t)
    /\ cycle[t].n < budget[t]
    /\ LET others == { t2 \in Threads \ {t} : Running(t2) /\ cycle[t2].user_id = u }
           marked == [ t2 \in Threads |->
                         IF t2 \in others THEN [cycle[t2] EXCEPT !.overlap = TRUE]
                         ELSE cycle[t2] ]
           fresh == [IdleCycle EXCEPT !.user_id = u, !.n = cycle[t].n + 1, !.started = now,
                                      !.overlap = (others # {}), !.prev = last_done[u]]
       IN  IF ~ users[u].is_active \/ ~ preferences[u].present
           THEN /\ pc' = [pc EXCEPT ![t] = "done"]
                /\ cycle' = [marked EXCEPT ![t] = fresh]
                /\ UNCHANGED << linkedin_last_requests, granted, last_done >>
           ELSE LET r == check_rate_limit(linkedin_last_requests, now)
                    pairs == PairsOf(preferences[u])
                    admitted == [fresh EXCEPT !.pairs = pairs, !.acquired = 1, !.ran = TRUE]
                IN  /\ linkedin_last_requests' = r.requests
                    /\ granted' = IF r.ok THEN granted (+) SetToBag({now}) ELSE granted
                    /\ IF ~ r.ok
                       THEN /\ pc' = [pc EXCEPT ![t] = "done"]
                            /\ cycle' = [marked EXCEPT ![t] = fresh]
                            /\ UNCHANGED last_done
                       ELSE IF pairs = << >>
                       THEN /\ pc' = [pc EXCEPT ![t] = "done"]
                            /\ cycle' = [marked EXCEPT ![t] = admitted]
                            /\ last_done' = [last_done EXCEPT ![u] =
                                               [ran |-> TRUE, fetched |-> << >>, at |-> now,
                                                failed |-> {}]]
                       ELSE /\ pc' = [pc EXCEPT ![t] = "search"]
                            /\ cycle' = [marked EXCEPT ![t] = admitted]
                            /\ UNCHANGED last_done
    /\ UNCHANGED << now, last_call, rl, setupVars, extVars, store_available, faults, storeVars, outbox,
                    undelivered >>

\* after the search loop: concat, drop_duplicates, and the entry of
\* save_jobs_for_user
AfterSearch(t, c) ==
    IF c.all_jobs = << >>
    THEN Done(t, c)
    ELSE LET combined == drop_duplicates(Concat(c.all_jobs))
             c2 == [c EXCEPT !.combined_jobs = combined, !.i = 1,
                      !.rows = Range(Urls(combined)),
                      !.net_new = { combined[k].job_url : k \in
                          { k \in DOMAIN combined :
                              /\ combined[k].job_url # NoUrl
                              /\ ~ get_user_job_status(jobs, user_jobs, c.user_id,
                                                       combined[k].job_url, TRUE) } }]
         IN  IF combined = << >>
             THEN Done(t, c2)
             ELSE /\ pc' = [pc EXCEPT ![t] = "save"]
                  /\ cycle' = [cycle EXCEPT ![t] = c2]
                  /\ UNCHANGED last_done

\* a search loop that a failed pair ends
RemainingPairsAbort(pairs, res) == IF res = << >> THEN << >> ELSE Tail(pairs)

\* the pairs left to the search loop after one pass: the pass's try/except
\* ends in "continue", and nothing else leaves the loop
RemainingPairs(pairs, res) == Tail(pairs)

\* one pass of the keyword/location loop
SearchPair(t) ==
    /\ pc[t] = "search"
    /\ LET c == cycle[t]
           prefs == preferences[c.user_id]
           pair == Head(c.pairs)
       IN  \E res \in AdapterResults(prefs, pair) :
             LET frame == filter_jobs_for_user(
                              [ k \in DOMAIN res |-> Scored(res[k], prefs, now) ], prefs)
                 c1 == [c EXCEPT !.pairs = RemainingPairs(@, res),
                          !.all_jobs = IF res # << >> THEN Append(@, frame) ELSE @,
                          !.fetched = Append(@, res),
                          !.requests = @ + (IF "linkedin" \in prefs.sites_enabled
                                            THEN 1 ELSE 0)]
             IN  IF c1.pairs # << >>
                 THEN /\ cycle' = [cycle EXCEPT ![t] = c1]
                      /\ UNCHANGED << pc, last_done >>
                 ELSE AfterSearch(t, c1)
    /\ UNCHANGED << now, rateVars, setupVars, extVars, store_available, faults, storeVars, outbox,
                    undelivered >>

\* the next row of the loop of save_jobs_for_user, or its end
NextRow(t, c) ==
    /\ cycle' = [cycle EXCEPT ![t] = [c EXCEPT !.i = @ + 1, !.job_id = NoValue,
                                              !.handled = @ \cup {c.combined_jobs[c.i].job_url}]]
    /\ pc' = [pc EXCEPT ![t] = IF c.i + 1 > Len(c.combined_jobs) THEN "notify" ELSE "save"]

\* job_url check and get_user_job_status
\* the cycle's record, with the row at hand noted as failed if the store's
\* write raised
Raised(c) ==
    IF store_available THEN c
    ELSE [c EXCEPT !.failed = @ \cup {c.combined_jobs[c.i].job_url}]

SaveCheck(t) ==
    /\ pc[t] = "save"
    /\ LET c == cycle[t]
           job == c.combined_jobs[c.i]
       IN  IF job.job_url = NoUrl
              \/ get_user_job_status(jobs, user_jobs, c.user_id, job.job_url,
                                     store_available)
           THEN NextRow(t, c)
           ELSE /\ pc' = [pc EXCEPT ![t] = "save_job"]
                /\ UNCHANGED cycle
    /\ UNCHANGED << now, rateVars, setupVars, extVars, store_available, faults, storeVars, outbox,
                    last_done, undelivered >>

\* job_id = self.save_job_to_db(job_data)
SaveJob(t) ==
    /\ pc[t] = "save_job"
    /\ LET c == cycle[t]
           r == save_job_to_db(jobs, c.combined_jobs[c.i], store_available)
       IN  /\ jobs' = r.jobs
           /\ IF r.job_id = NoValue
              THEN NextRow(t, Raised(c))
              ELSE /\ cycle' = [cycle EXCEPT ![t].job_id = r.job_id]
                   /\ pc' = [pc EXCEPT ![t] = "save_link"]
    /\ UNCHANGED << now, rateVars, setupVars, extVars, store_available, faults, user_jobs, outbox,
                    last_done, undelivered >>

\* relationship_created = self.create_user_job_relationship(...)
SaveLink(t) ==
    /\ pc[t] = "save_link"
    /\ LET c == cycle[t]
           r == create_user_job_relationship(user_jobs, c.user_id, c.job_id,
                                             store_available)
           c1 == IF r.ok
                 THEN [c EXCEPT !.new_jobs = Append(@, c.combined_jobs[c.i]),
                         !.links_created = @ + (IF r.user_jobs # user_jobs THEN 1 ELSE 0)]
                 ELSE c
       IN  /\ user_jobs' = r.user_jobs
           /\ NextRow(t, Raised(c1))
    /\ UNCHANGED << now, rateVars, setupVars, extVars, store_available, faults, jobs, outbox, last_done,
                    undelivered >>

\* if len(new_jobs) > 0: self.send_job_notifications(user, new_jobs)
Notify(t) ==
    /\ pc[t] = "notify"
    /\ LET c == cycle[t]
           u == c.user_id
           mine == { << u, c.new_jobs[k].job_url >> : k \in DOMAIN c.new_jobs }
       IN  IF ReachesSend(c.new_jobs, email_configured)
           THEN \E ok \in BOOLEAN :
                LET msg == [user_id |-> u, count |-> Len(c.new_jobs),
                            listed |-> EmailListed(c.new_jobs), ok |-> ok]
                IN
                  /\ outbox' = outbox (+) SetToBag({msg})
                  /\ user_jobs' = IF ok THEN MarkNotified(user_jobs, u, c.new_jobs)
                                  ELSE user_jobs
                  /\ undelivered' =
                        IF ok
                        THEN undelivered \ { << u, url >> : url \in Range(EmailListed(c.new_jobs)) }
                        ELSE undelivered \cup mine
                  /\ Done(t, [c EXCEPT !.send_attempts = @ + 1, !.digest = msg])
           ELSE /\ undelivered' = undelivered \cup mine
                /\ UNCHANGED << outbox, user_jobs >>
                /\ Done(t, c)
    /\ UNCHANGED << now, rateVars, setupVars, extVars, store_available, faults, jobs >>

ThreadStep(t) ==
    \/ \E u \in Users : StartCycle(t, u)
    \/ SearchPair(t)
    \/ SaveCheck(t)
    \/ SaveJob(t)
    \/ SaveLink(t)
    \/ Notify(t)

\* days pass between cycles (a cycle lasts seconds to minutes)
DaysPass ==
    /\ \A t \in Threads : ~ Running(t)
    /\ \E d \in {2 * SecondsPerDay} : Tick(d, MaxDays * SecondsPerDay)

\* two users with the same single keyword: both are offered the same postings
SharedPreferences ==
    [u \in Users |-> Criteria(<< "python" >>, << "remote" >>, << >>, 50)]

\* every search is answered with the same single posting
SharedUpstream ==
    [p \in AllPairs |-> << Posting(1, {"python"}, {"google"}, {"remote"}, 0) >>]

InitShared ==
    /\ InitCommon
    /\ budget = [t \in Threads |-> IF t = "sched" THEN MaxConcCycles ELSE MaxRunNow]
    /\ preferences = SharedPreferences
    /\ upstream = SharedUpstream
    /\ email_configured = TRUE

\* the scheduler thread and a run-now thread of the same engine
Next == \E t \in Threads : ThreadStep(t)

Spec == InitShared /\ [][Next]_vars

\* every search is answered with the same two postings
StoreUpstream ==
    [p \in AllPairs |-> << Posting(1, {"python"}, {"google"}, {"remote"}, 0),
                           Posting(2, {"python"}, {"acme"}, {"remote"}, 0) >>]

InitStore ==
    /\ InitCommon
    /\ budget = [t \in Threads |-> MaxStoreCycles]
    /\ preferences = SharedPreferences
    /\ upstream = StoreUpstream
    /\ email_configured \in BOOLEAN

\* sqlite3 starts or stops raising (a locked or unreachable database file)
\* while a cycle is under way
StoreFlip ==
    /\ \E t \in Threads : Running(t)
    /\ faults < MaxFaults
    /\ faults' = faults + 1
    /\ store_available' = ~ store_available
    /\ UNCHANGED << now, rateVars, setupVars, extVars, storeVars, cycleVars >>

NextStore ==
    \/ Next
    \/ StoreFlip

\* the two threads of one engine over a store whose operations may fail
SpecStore == InitStore /\ [][NextStore]_vars

\* the cycles of the scheduler thread alone: one after the other
NextSeq ==
    \/ ThreadStep("sched")
    \/ DaysPass

SpecSeq == Init /\ [][NextSeq]_vars

(***************************************************************************)
(* Cycles of the scheduler thread when the first user's configuration may  *)
(* be unusable: the user inactive (get_user_by_id returning None takes the *)
(* same branch), no user_preferences row, or a row whose keywords or       *)
(* locations column is empty (read back as []).                            *)
(***************************************************************************)
\* the criteria rows the first user may have
ConfigCriteria ==
    { NoCriteria,
      Criteria(<< >>, << "remote" >>, << >>, 50),
      Criteria(<< "python" >>, << >>, << >>, 50),
      Criteria(<< "python" >>, << "remote" >>, << >>, 50) }

InitConfig ==
    /\ InitBase
    /\ \E a \in BOOLEAN :
          users = [u \in Users |-> [is_active |-> IF u = "u1" THEN a ELSE TRUE]]
    /\ \E c \in ConfigCriteria :
          preferences = [u \in Users |->
                            IF u = "u1" THEN c
                            ELSE Criteria(<< "python" >>, << "remote" >>, << >>, 50)]
    /\ budget = [t \in Threads |-> IF t = "sched" THEN MaxCycles ELSE 0]
    /\ upstream = SmallUpstream
    /\ email_configured = TRUE

SpecConfig == InitConfig /\ [][NextSeq]_vars

(***************************************************************************)
(* Cycles of users whose criteria have more keywords and locations than    *)
(* one cycle searches.  The source answers each pair with one posting      *)
(* naming the pair, so that the answers a cycle obtained tell which pairs  *)
(* it asked for.                                                           *)
(***************************************************************************)
CostKeywords == << "k1", "k2", "k3", "k4" >>
CostLocations == << "l1", "l2", "l3" >>

\* the URL of the posting answered for a pair
CostUrl(pair) ==
    10 * (CHOOSE i \in DOMAIN CostKeywords : CostKeywords[i] = pair[1])
       + (CHOOSE j \in DOMAIN CostLocations : CostLocations[j] = pair[2])

CostUpstream ==
    [ p \in Range(CostKeywords) \X Range(CostLocations) |->
        << Posting(CostUrl(p), {p[1]}, {"acme"}, {p[2]}, 0) >> ]

InitCost ==
    /\ InitCommon
    /\ \E nk \in {2, Len(CostKeywords)}, nl \in {1, Len(CostLocations)} :
          preferences = [u \in Users |->
              Criteria(Take(CostKeywords, nk), Take(CostLocations, nl), << >>, 50)]
    /\ budget = [t \in Threads |-> IF t = "sched" THEN MaxCostCycles ELSE 0]
    /\ upstream = CostUpstream
    /\ email_configured = TRUE

SpecCost == InitCost /\ [][NextSeq]_vars

(***************************************************************************)
(* The source adapter: LinkedInScraperFree.method_1_guest_api and          *)
(* scrape_jobs (src/src/linkedin_scraper_free.py).  A card is the URL of   *)
(* its posting, or NoValue when parse_job_card returns None; a page is the *)
(* sequence of cards of one response.                                      *)
(***************************************************************************)
Pages == { << >>, << 1, 2 >>, << 2, 3 >>, << NoValue, 3 >>, << NoValue >> }

\* what one session.get can produce: an exception (network error, timeout),
\* HTTP 429, another non-200 status, or a page
Responses ==
    { [status |-> st, cards |-> << >>] : st \in {"exception", "429", "non200"} }
    \cup { [status |-> "200", cards |-> page] : page \in Pages }

\* what method_2_selenium_stealth can do: no driver (returns []), an
\* exception that leaves the method (driver creation, driver.quit()), or
\* the postings of a page
Method2Outcomes ==
    { [kind |-> k, cards |-> << >>] : k \in {"no_driver", "raises"} }
    \cup { [kind |-> "jobs", cards |-> page] : page \in Pages }

\* the dict parse_job_card returns for a card; scraped_at is the rank of the
\* job among those parsed by the call, standing for datetime.now()
Job(card, rank) == [job_url |-> card, scraped_at |-> rank]

RECURSIVE ParseCardsAll(_, _, _)
\* a card loop that never looks at max_results
ParseCardsAll(found, cards, max_results) ==
    IF cards = << >> THEN found
    ELSE LET next == IF Head(cards) # NoValue
                     THEN Append(found, Job(Head(cards), Len(found) + 1)) ELSE found
         IN  ParseCardsAll(next, Tail(cards), max_results)

RECURSIVE ParseCards(_, _, _)
\* for card in job_cards: append what parses, stop at max_results
ParseCards(found, cards, max_results) ==
    IF cards = << >> THEN found
    ELSE LET next == IF Head(cards) # NoValue
                     THEN Append(found, Job(Head(cards), Len(found) + 1)) ELSE found
         IN  IF Len(next) >= max_results THEN next
             ELSE ParseCards(next, Tail(cards), max_results)

RECURSIVE ParseElements(_, _)
\* method 2: for element in job_elements[:max_results], append what parses
ParseElements(found, elements) ==
    IF elements = << >> THEN found
    ELSE ParseElements(IF Head(elements) # NoValue
                       THEN Append(found, Job(Head(elements), Len(found) + 1)) ELSE found,
                       Tail(elements))

RECURSIVE UniqueFromLast(_, _)
\* a duplicate removal that keeps the last job of every job_url
UniqueFromLast(all, seen) ==
    IF all = << >> THEN << >>
    ELSE IF \E i \in 2 .. Len(all) : all[i].job_url = Head(all).job_url
         THEN UniqueFromLast(Tail(all), seen)
         ELSE << Head(all) >> \o UniqueFromLast(Tail(all), seen)

RECURSIVE UniqueFrom(_, _)
\* scrape_jobs: keep the first job of every job_url
UniqueFrom(all, seen) ==
    IF all = << >> THEN << >>
    ELSE IF Head(all).job_url \in seen THEN UniqueFrom(Tail(all), seen)
         ELSE << Head(all) >> \o UniqueFrom(Tail(all), seen \cup {Head(all).job_url})

\* a scrape_jobs that always goes on to method 2
NeedsFallbackAlways(all_jobs, max_results) == TRUE

\* if len(all_jobs) < max_results//2
NeedsFallback(all_jobs, max_results) == Len(all_jobs) < max_results \div 2

\* max_results of the method_1_guest_api call in progress
Method1Limit(a) ==
    IF a.entry = "scrape_jobs" THEN a.max_results \div 2 ELSE a.max_results

\* a scrape_jobs whose call of method_2_selenium_stealth is outside any try
ExceptTargetUnguarded(at) == IF at = "m1_request" THEN "m1_return" ELSE "raised"

\* where control continues when the statement at position `at` raises: the
\* except clause of the enclosing try, or out of the entry point
ExceptTarget(at) ==
    CASE at = "m1_request" -> "m1_return"
      [] at = "m2" -> "dedupe"
      [] OTHER -> "raised"

\* a caller invokes method_1_guest_api(..., max_results) or scrape_jobs
AdapterCall ==
    /\ ad.pc \in {"idle", "returned"}
    /\ \E entry \in {"method_1_guest_api", "scrape_jobs"} : \E m \in AdapterMaxResults :
       \E odd \in {0, 1} :
          ad' = [IdleAdapter EXCEPT !.pc = "m1_loop", !.entry = entry,
                                    !.called = << "method_1" >>,
                                    !.max_results = IF entry = "scrape_jobs"
                                                    THEN 2 * m + odd ELSE m]
    /\ UNCHANGED << coreVars, schedVars, probe >>

\* while len(jobs) < max_results and start < 200
Method1Loop ==
    /\ ad.pc = "m1_loop"
    /\ ad' = IF Len(ad.jobs) < Method1Limit(ad) /\ ad.start < StartLimit
             THEN [ad EXCEPT !.pc = "m1_request"]
             ELSE [ad EXCEPT !.pc = "m1_return",
                             !.exit = IF Len(ad.jobs) >= Method1Limit(ad)
                                      THEN "count" ELSE "offset"]
    /\ UNCHANGED << coreVars, schedVars, probe >>

\* the body of the loop: one request and what is made of its response
Method1Request ==
    /\ ad.pc = "m1_request"
    /\ \E r \in Responses :
          ad' = CASE r.status = "exception" ->
                       [ad EXCEPT !.pc = ExceptTarget("m1_request"), !.swallowed = @ + 1,
                                  !.offsets = Append(@, ad.start), !.exit = "exception"]
                  [] r.status = "429" -> [ad EXCEPT !.pc = "m1_backoff"]
                  [] r.status = "non200" ->
                       [ad EXCEPT !.pc = "m1_return", !.offsets = Append(@, ad.start),
                                  !.exit = "status"]
                  [] OTHER ->
                       IF r.cards = << >>
                       THEN [ad EXCEPT !.pc = "m1_return", !.offsets = Append(@, ad.start),
                                       !.exit = "empty"]
                       ELSE [ad EXCEPT !.pc = "m1_loop",
                                       !.offsets = Append(@, ad.start),
                                       !.jobs = ParseCards(@, r.cards, Method1Limit(ad)),
                                       !.start = @ + PageStep]
    /\ UNCHANGED << coreVars, schedVars, probe >>

\* time.sleep(random.uniform(30, 60)); continue
Method1Backoff ==
    /\ ad.pc = "m1_backoff"
    /\ ad' = [ad EXCEPT !.pc = "m1_loop"]
    /\ UNCHANGED << coreVars, schedVars, probe >>

\* return jobs; in scrape_jobs: all_jobs.extend(jobs_1) and the test for method 2
Method1Return ==
    /\ ad.pc = "m1_return"
    /\ ad' = IF ad.entry = "method_1_guest_api"
             THEN [ad EXCEPT !.pc = "returned", !.result = ad.jobs]
             ELSE [ad EXCEPT !.all_jobs = ad.jobs, !.m1_yield = Len(ad.jobs),
                             !.pc = IF NeedsFallback(ad.jobs, ad.max_results)
                                    THEN "m2" ELSE "dedupe"]
    /\ UNCHANGED << coreVars, schedVars, probe >>

\* jobs_2 = self.method_2_selenium_stealth(...); all_jobs.extend(jobs_2)
Method2 ==
    /\ ad.pc = "m2"
    /\ \E o \in Method2Outcomes :
          ad' = IF o.kind = "raises"
                THEN [ad EXCEPT !.pc = ExceptTarget("m2"), !.swallowed = @ + 1,
                                !.called = Append(@, "method_2")]
                ELSE [ad EXCEPT !.pc = "dedupe",
                                !.called = Append(@, "method_2"),
                                !.all_jobs = ParseElements(@, Take(o.cards,
                                                                   ad.max_results \div 2))]
    /\ UNCHANGED << coreVars, schedVars, probe >>

\* the duplicate removal of scrape_jobs and its return
ScrapeReturn ==
    /\ ad.pc = "dedupe"
    /\ ad' = [ad EXCEPT !.pc = "returned", !.result = UniqueFrom(ad.all_jobs, {})]
    /\ UNCHANGED << coreVars, schedVars, probe >>

NextAdapter ==
    \/ AdapterCall
    \/ Method1Loop
    \/ Method1Request
    \/ Method1Backoff
    \/ Method1Return
    \/ Method2
    \/ ScrapeReturn

SpecAdapter == InitRate /\ [][NextAdapter]_vars

\* the thread running the call is scheduled again and again
SpecAdapterFair == SpecAdapter /\ WF_vars(NextAdapter)

(***************************************************************************)
(* Either one call into the scraper or the cycles of the scheduler thread: *)
(* the two places where duplicates are removed.                            *)
(***************************************************************************)
NextDedup ==
    \/ (\A t \in Threads : cycle[t].n = 0) /\ NextAdapter
    \/ ad = IdleAdapter /\ NextSeq

SpecDedup == Init /\ [][NextDedup]_vars

(***************************************************************************)
(* The scheduler: start_continuous_search, stop_continuous_search,         *)
(* schedule_user_searches and run_scheduler, with the timers kept by the   *)
(* module-level schedule object.  A timer is [id, user_id, due]; a web     *)
(* thread carries one start or stop request; the methods take no lock, so  *)
(* their statements interleave.  A timed job is followed up to its adapter *)
(* request: it returns on any answer except HTTP 429, on which it sleeps   *)
(* and repeats the request.                                                *)
(***************************************************************************)
\* users schedule_user_searches registers a timer for
Schedulable == { u \in Users : users[u].is_active /\ preferences[u].present }

RECURSIVE SortedById(_)
\* sorted(job for job in self.jobs if job.should_run), as a sequence
SortedById(timers) ==
    IF timers = {} THEN << >>
    ELSE LET first == CHOOSE j \in timers : \A k \in timers : j.id <= k.id
         IN  << first >> \o SortedById(timers \ {first})

RECURSIVE RegisterAll(_, _, _)
\* schedule.every(frequency).minutes.do(...) for each user of the list
RegisterAll(timers, todo, next_id) ==
    IF todo = {} THEN timers
    ELSE LET u == CHOOSE x \in todo : TRUE
         IN  RegisterAll(timers \cup {[id |-> next_id, user_id |-> u, due |-> FALSE]},
                         todo \ {u}, next_id + 1)

\* the answers a timed job's adapter request can meet
JobAnswers == {"200", "exception", "non200", "429"}

\* stop_continuous_search has returned and no start has set the flag since
Stopped == ~ is_running /\ \A w \in WebThreads : web[w] # "stop_clear"

\* start_search_engine: "if not engine.is_running" starts a thread on
\* engine.start_continuous_search
WebStart(w) ==
    /\ web[w] = "idle"
    /\ ~ is_running
    /\ registered + Cardinality(Schedulable) <= MaxTimers
    /\ web' = [web EXCEPT ![w] = "start_check"]
    /\ UNCHANGED << coreVars, ad, probe, is_running, schedule_jobs, registered, loops >>

\* start_continuous_search: "if self.is_running: return"
StartCheck(w) ==
    /\ web[w] = "start_check"
    /\ web' = [web EXCEPT ![w] = IF is_running THEN "idle" ELSE "start_set"]
    /\ UNCHANGED << coreVars, ad, probe, is_running, schedule_jobs, registered, loops >>

\* self.is_running = True
StartSet(w) ==
    /\ web[w] = "start_set"
    /\ is_running' = TRUE
    /\ web' = [web EXCEPT ![w] = "start_schedule"]
    /\ UNCHANGED << coreVars, ad, probe, schedule_jobs, registered, loops >>

\* self.schedule_user_searches()
StartSchedule(w) ==
    /\ web[w] = "start_schedule"
    /\ schedule_jobs' = RegisterAll(schedule_jobs, Schedulable, registered + 1)
    /\ registered' = registered + Cardinality(Schedulable)
    /\ web' = [web EXCEPT ![w] = "start_thread"]
    /\ UNCHANGED << coreVars, ad, probe, is_running, loops >>

\* threading.Thread(target=self.run_scheduler).start()
StartThread(w) ==
    /\ web[w] = "start_thread"
    /\ \E l \in Loops :
          /\ loops[l].pc \in {"off", "stopped"}
          /\ loops' = [loops EXCEPT ![l] = [IdleLoop EXCEPT !.pc = "check"]]
    /\ web' = [web EXCEPT ![w] = "idle"]
    /\ UNCHANGED << coreVars, ad, probe, is_running, schedule_jobs, registered >>

\* stop_continuous_search: self.is_running = False
StopSet(w) ==
    /\ web[w] = "idle"
    /\ \E l \in Loops : loops[l].pc \notin {"off", "stopped"}
    /\ is_running' = FALSE
    /\ web' = [web EXCEPT ![w] = "stop_clear"]
    /\ UNCHANGED << coreVars, ad, probe, schedule_jobs, registered, loops >>

\* stop_continuous_search: schedule.clear()
StopClear(w) ==
    /\ web[w] = "stop_clear"
    /\ schedule_jobs' = {}
    /\ web' = [web EXCEPT ![w] = "idle"]
    /\ UNCHANGED << coreVars, ad, probe, is_running, registered, loops >>

\* a registered timer reaches its next_run
TimerDue ==
    /\ \E j \in schedule_jobs :
          /\ ~ j.due
          /\ schedule_jobs' = (schedule_jobs \ {j}) \cup {[j EXCEPT !.due = TRUE]}
    /\ UNCHANGED << coreVars, ad, probe, is_running, registered, loops, web >>

\* run_scheduler: "while self.is_running", then run_pending takes the due timers
LoopCheck(l) ==
    /\ loops[l].pc = "check"
    /\ loops' = [loops EXCEPT ![l] =
                    IF is_running
                    THEN [@ EXCEPT !.pc = "run_pending",
                                   !.pending = SortedById({ j \in schedule_jobs : j.due })]
                    ELSE [@ EXCEPT !.pc = "stopped"]]
    /\ UNCHANGED << coreVars, ad, probe, is_running, schedule_jobs, registered, web >>

\* run_pending: the next job of the snapshot starts, or time.sleep(30)
LoopRunNext(l) ==
    /\ loops[l].pc = "run_pending"
    /\ LET lp == loops[l]
       IN  loops' = [loops EXCEPT ![l] =
                IF lp.pending = << >>
                THEN [lp EXCEPT !.pc = "sleep"]
                ELSE [lp EXCEPT !.pc = "job", !.job = Head(lp.pending).id,
                                !.user_id = Head(lp.pending).user_id,
                                !.pending = Tail(lp.pending),
                                !.after_stop = Stopped,
                                !.twice = \E i \in 2 .. Len(lp.pending) :
                                     lp.pending[i].user_id = Head(lp.pending).user_id]]
    /\ UNCHANGED << coreVars, ad, probe, is_running, schedule_jobs, registered, web >>

\* search_jobs_for_user reaches the adapter's request; when the job returns
\* the timer is rescheduled
LoopJobRequest(l) ==
    /\ loops[l].pc = "job"
    /\ \E answer \in JobAnswers :
          IF answer = "429"
          THEN /\ loops' = [loops EXCEPT ![l].pc = "backoff"]
               /\ UNCHANGED schedule_jobs
          ELSE /\ loops' = [loops EXCEPT ![l] =
                              [IdleLoop EXCEPT !.pc = "run_pending",
                                               !.pending = loops[l].pending]]
               /\ schedule_jobs' = { IF j.id = loops[l].job THEN [j EXCEPT !.due = FALSE]
                                     ELSE j : j \in schedule_jobs }
    /\ UNCHANGED << coreVars, ad, probe, is_running, registered, web >>

\* time.sleep(random.uniform(30, 60)); continue
LoopBackoff(l) ==
    /\ loops[l].pc = "backoff"
    /\ loops' = [loops EXCEPT ![l].pc = "job"]
    /\ UNCHANGED << coreVars, ad, probe, is_running, schedule_jobs, registered, web >>

\* time.sleep(30) ends
LoopWake(l) ==
    /\ loops[l].pc = "sleep"
    /\ loops' = [loops EXCEPT ![l].pc = "check"]
    /\ UNCHANGED << coreVars, ad, probe, is_running, schedule_jobs, registered, web >>

LoopStep(l) ==
    \/ LoopCheck(l)
    \/ LoopRunNext(l)
    \/ LoopJobRequest(l)
    \/ LoopBackoff(l)
    \/ LoopWake(l)

WebStep(w) ==
    \/ WebStart(w)
    \/ StartCheck(w)
    \/ StartSet(w)
    \/ StartSchedule(w)
    \/ StartThread(w)
    \/ StopSet(w)
    \/ StopClear(w)

NextSched ==
    \/ \E w \in WebThreads : WebStep(w)
    \/ \E l \in Loops : LoopStep(l)
    \/ TimerDue

SpecSched == InitRate /\ [][NextSched]_vars

\* every started scheduler thread keeps being given the processor
SpecSchedFair == SpecSched /\ \A l \in Loops : WF_vars(LoopStep(l))

(***************************************************************************)
(* The scoring and filtering functions called on their own, as the clock   *)
(* advances between calls.  probe holds the arguments and result of the    *)
(* last call and, for a score, the call before it when its arguments were  *)
(* the same.                                                               *)
(***************************************************************************)
ProbeJobs ==
    { Posting(1, {"python"}, {"google"}, {"remote"}, 0),
      Posting(2, {"python", "senior", "lead"}, {"acme"}, {"remote"}, 0),
      [Posting(3, {"python"}, {"acme"}, {"toronto"}, NoValue) EXCEPT !.salary_min = 60000],
      Posting(4, {"python", "internet"}, {"acme"}, {"remote"}, NoValue) }

ProbePrefs ==
    { Criteria(<< "python" >>, << "remote" >>, << >>, 50),
      Criteria(<< "python", "java" >>, << "remote" >>, << "senior", "lead", ".net" >>, 50) }

\* values of linkedin_quality_threshold
Thresholds == {60, 90, 100}

\* the frames of at most MaxFrame scored rows, each posting at most once
ProbeFrames(prefs, clock) ==
    UNION { { [ k \in 1 .. n |-> Scored(f[k], prefs, clock) ] :
                f \in { g \in [1 .. n -> ProbeJobs] :
                           \A a, b \in 1 .. n : a # b => g[a] # g[b] } } :
            n \in 0 .. MaxFrame }

NoScore == [at |-> NoValue, score |-> NoValue]

\* the user whose criteria the calls are given
ProbeUser == "u1"

\* the criteria of the calls: every user has the same
InitProbe ==
    /\ InitCommon
    /\ \E c \in ProbePrefs : preferences = [u \in Users |-> c]
    /\ budget = [t \in Threads |-> 0]
    /\ upstream = SmallUpstream
    /\ email_configured = TRUE

\* self.calculate_quality_score(job_row, preferences)
ScoreCall ==
    /\ \E job \in ProbeJobs :
          LET same == probe.kind = "score" /\ probe.job = job
          IN  probe' = [kind |-> "score", job |-> job, at |-> now,
                        score |-> calculate_quality_score(job, preferences[ProbeUser], now),
                        prev |-> IF same THEN [at |-> probe.at, score |-> probe.score]
                                 ELSE NoScore]
    /\ UNCHANGED << coreVars, ad, schedVars >>

\* self.filter_jobs_for_user(jobs_df, preferences), for one frame and two
\* criteria that differ in the quality threshold only
FilterCall ==
    /\ \E frame \in ProbeFrames(preferences[ProbeUser], now) :
       \E t1 \in Thresholds, t2 \in Thresholds :
          probe' = [kind |-> "filter", frame |-> frame, t1 |-> t1, t2 |-> t2,
                    r1 |-> filter_jobs_for_user(frame,
                              [preferences[ProbeUser] EXCEPT !.linkedin_quality_threshold = t1]),
                    r2 |-> filter_jobs_for_user(frame,
                              [preferences[ProbeUser] EXCEPT !.linkedin_quality_threshold = t2])]
    /\ UNCHANGED << coreVars, ad, schedVars >>

\* time passes between calls
ClockAdvance == Tick(SecondsPerDay, MaxProbeDays * SecondsPerDay)

NextProbe ==
    \/ ScoreCall
    \/ FilterCall
    \/ ClockAdvance

SpecProbe == InitProbe /\ [][NextProbe]_vars

(***************************************************************************)
(* The timing of the recurring timers: schedule_user_searches registers    *)
(* them, run_scheduler polls every TickSeconds.  Here a timer is           *)
(* [user_id, next_run, delay_minutes]: next_run is the time the schedule   *)
(* module will run it, delay_minutes the value schedule_user_searches      *)
(* computes from hash(user.id), any value below the frequency.             *)
(***************************************************************************)
\* schedule.every(frequency).minutes: a run is due one period from now
\* (delay_minutes is not passed on)
NextRun(clock, frequency) == clock + frequency * 60

RECURSIVE SortedByNextRun(_)
\* sorted(job for job in self.jobs if job.should_run)
SortedByNextRun(timers) ==
    IF timers = {} THEN << >>
    ELSE LET first == CHOOSE j \in timers : \A k \in timers : j.next_run <= k.next_run
         IN  << first >> \o SortedByNextRun(timers \ {first})

\* start_continuous_search, with schedule_user_searches
StaggerStart ==
    /\ ~ is_running
    /\ is_running' = TRUE
    /\ \E delay \in [Schedulable -> 0 .. (MaxFrequency - 1)] :
          schedule_jobs' = { [user_id |-> u,
                              next_run |-> NextRun(now, MaxFrequency),
                              delay_minutes |-> delay[u]] : u \in Schedulable }
    /\ registered' = registered + Cardinality(Schedulable)
    /\ loops' = [loops EXCEPT !["l1"] = [IdleLoop EXCEPT !.pc = "check"]]
    /\ UNCHANGED << coreVars, ad, probe, web >>

\* one pass of run_scheduler's loop: run_pending runs the timers that are
\* due and gives each its next run, one period after it ran
StaggerRunPending ==
    /\ loops["l1"].pc = "check"
    /\ LET due == { j \in schedule_jobs : j.next_run <= now }
       IN  /\ loops' = [loops EXCEPT !["l1"].pc = "sleep",
                                     !["l1"].pending = SortedByNextRun(due)]
           /\ schedule_jobs' = (schedule_jobs \ due) \cup
                 { [j EXCEPT !.next_run = NextRun(now, MaxFrequency)] :
                     j \in due }
    /\ UNCHANGED << coreVars, ad, probe, is_running, registered, web >>

\* time.sleep(30), or the time before the engine is started
StaggerSleep ==
    /\ loops["l1"].pc \in {"off", "sleep"}
    /\ now + TickSeconds <= MaxStaggerSeconds
    /\ now' = now + TickSeconds
    /\ loops' = [loops EXCEPT !["l1"].pc = IF @ = "sleep" THEN "check" ELSE @]
    /\ UNCHANGED << rateVars, setupVars, store_available, faults, storeVars, cycleVars, ad, probe,
                    is_running, schedule_jobs, registered, web >>

NextStagger ==
    \/ StaggerStart
    \/ StaggerRunPending
    \/ StaggerSleep

SpecStagger == InitRate /\ [][NextStagger]_vars

(***************************************************************************)
(* Properties of the cycle.                                                *)
(***************************************************************************)
\* the cycle of thread t has returned after running the pipeline
Completed(t) == pc[t] = "done" /\ cycle[t].ran

\* the successfully sent digests to user u whose body lists url
DigestsListing(u, url) ==
    LET hit == { e \in BagToSet(outbox) :
                    e.ok /\ e.user_id = u /\ url \in Range(e.listed) }
    IN  BagCardinality([e \in hit |-> outbox[e]])

\* the URL of the jobs row a link points to
UrlOfLink(l) == (CHOOSE j \in jobs : j.id = l.job_id).job_url

\* some pair of the cycle's search returned postings
FetchedSome(c) == \E k \in DOMAIN c.fetched : c.fetched[k] # << >>

\* C1: a cycle that completes after a completed cycle of the same user, with
\* the same results returned for every pair, unchanged criteria and the store
\* writing, creates no user_jobs link and issues no send.
C1_IdempotentCycle ==
    \A t \in Threads :
        (/\ Completed(t)
         /\ store_available
         /\ cycle[t].prev.ran
         /\ cycle[t].prev.fetched = cycle[t].fetched)
        => (cycle[t].links_created = 0 /\ cycle[t].send_attempts = 0)

\* C1 witness: the second of two such cycles, days apart, the first of which
\* linked postings to the user
C1_Witness ==
    /\ Completed("sched")
    /\ cycle["sched"].prev.ran
    /\ cycle["sched"].prev.fetched = cycle["sched"].fetched
    /\ FetchedSome(cycle["sched"])
    /\ cycle["sched"].prev.at < cycle["sched"].started
    /\ \E l \in user_jobs : l.user_id = cycle["sched"].user_id

\* C2: the jobs table holds at most one row per job_url and the user_jobs
\* table at most one link per user and posting, in every reachable state of
\* the scheduler thread and a run-now thread running cycles for any users.
C2_Deduplication ==
    /\ \A r1, r2 \in jobs : r1.job_url = r2.job_url => r1 = r2
    /\ \A l1, l2 \in user_jobs :
          (l1.user_id = l2.user_id /\ UrlOfLink(l1) = UrlOfLink(l2)) => l1 = l2

\* C2 witness: one jobs row linked to both users, and a later cycle to which
\* the same postings were presented again has completed without a new link
C2_Witness ==
    /\ \E j \in jobs : \A u \in Users :
          \E l \in user_jobs : l.user_id = u /\ l.job_id = j.id
    /\ Completed("sched")
    /\ cycle["sched"].n = 2
    /\ FetchedSome(cycle["sched"])
    /\ cycle["sched"].links_created = 0

\* C3: for every user and job_url, at most one successfully sent digest
\* lists the posting, whatever the interleaving of the scheduler's cycle and
\* a run-now cycle of the same user.
C3_ExactlyOnceNotification ==
    \A u \in Users : \A j \in jobs : DigestsListing(u, j.job_url) <= 1

\* what get_user_job_history returns for the user of cycle c
HistoryOf(c) == get_user_job_history(jobs, user_jobs, c.user_id, HistoryLimit)

C5_NotifiedFlag ==
    (\A t \in Threads : ~ Running(t)) =>
        \A l \in user_jobs :
            l.is_notified <=> (DigestsListing(l.user_id, UrlOfLink(l)) >= 1)

\* C6: a posting whose digest failed or was skipped for want of a sender, and
\* which the user's later cycle is offered again (it is in the filtered,
\* de-duplicated frame), is in the set that cycle hands to the notifier.
C6_AtLeastOnceDelivery ==
    \A t \in Threads :
        pc[t] = "notify" =>
            \A k \in DOMAIN cycle[t].combined_jobs :
                << cycle[t].user_id, cycle[t].combined_jobs[k].job_url >> \in undelivered
                => cycle[t].combined_jobs[k].job_url \in Range(Urls(cycle[t].new_jobs))

\* C7: every send_email call carries at least one posting, and a cycle that
\* returned with an empty new_jobs frame (or an empty net-new set) issued no
\* send.
C7_NoEmptyDigest ==
    /\ \A e \in BagToSet(outbox) : e.count >= 1 /\ e.listed # << >>
    /\ \A t \in Threads :
          (pc[t] = "done" /\ (cycle[t].new_jobs = << >> \/ cycle[t].net_new = {}))
          => cycle[t].send_attempts = 0

\* C7 witness: with a sender configured and a digest sent earlier, a cycle
\* that was offered postings found none of them new and returned without a
\* send
C7_Witness ==
    /\ email_configured
    /\ outbox # EmptyBag
    /\ Completed("sched")
    /\ FetchedSome(cycle["sched"])
    /\ cycle["sched"].net_new = {}
    /\ cycle["sched"].new_jobs = << >>
    /\ cycle["sched"].send_attempts = 0

\* C10: every request a cycle issues to the job source is preceded by its own
\* granted check_rate_limit call: a cycle issues no more requests than it
\* was granted.
C10_NoBypass ==
    \A t \in Threads : cycle[t].requests <= cycle[t].acquired

(***************************************************************************)
(* Properties of the source adapter.                                       *)
(***************************************************************************)
\* C12: every call of method_1_guest_api leaves its request loop and
\* returns, whatever the upstream answers (HTTP 429 included).
C12_BoundedBackoff ==
    (ad.pc \in {"m1_loop", "m1_request", "m1_backoff"}) ~> (ad.pc = "m1_return")

\* C13: no exception leaves method_1_guest_api or scrape_jobs: control never
\* reaches the caller by a raise, and what is returned is a list of parsed
\* postings (possibly empty), free of duplicates for scrape_jobs.
C13_AdapterNeverRaises ==
    /\ ad.pc # "raised"
    /\ ad.pc = "returned" =>
          /\ NoValue \notin Range(Urls(ad.result))
          /\ ad.entry = "scrape_jobs" =>
                Cardinality(Range(Urls(ad.result))) = Len(ad.result)

\* C13 witness: scrape_jobs returned after a network exception in method 1
\* and an exception out of method 2
C13_Witness ==
    /\ ad.pc = "returned"
    /\ ad.entry = "scrape_jobs"
    /\ ad.swallowed = 2

(***************************************************************************)
(* Properties of the scheduler.                                            *)
(***************************************************************************)
\* the timers of the tick's snapshot that a scheduler thread has yet to run
Waiting(l) == { loops[l].pending[i].user_id : i \in DOMAIN loops[l].pending }

\* C11: while a user's timed cycle is failing at the adapter (exception,
\* non-200 or HTTP 429 answers), every other user whose timer was due in the
\* same tick eventually has its cycle started.
C11_Isolation ==
    \A l \in Loops : \A u \in Users :
        (loops[l].pc \in {"job", "backoff"} /\ u \in Waiting(l))
            ~> (loops[l].pc = "job" /\ loops[l].user_id = u)

\* C14: no user cycle is started once stop_continuous_search has returned
\* (timers already due in the tick being processed included), and a stop
\* leaves a cycle in flight where it is.
C14_StopStartsNothing ==
    \A l \in Loops : ~ loops[l].after_stop

\* C15: at most one scheduler thread is polling, every user has at most one
\* registered timer, and no tick runs one user's cycle twice.
C15_SingleScheduler ==
    /\ Cardinality({ l \in Loops : loops[l].pc \notin {"off", "stopped"} }) <= 1
    /\ \A u \in Users : Cardinality({ j \in schedule_jobs : j.user_id = u }) <= 1
    /\ \A l \in Loops : ~ loops[l].twice

(***************************************************************************)
(* Properties of cycles under configuration errors.                        *)
(***************************************************************************)
\* the user is inactive, has no criteria, or has criteria without a keyword
\* or without a location
Misconfigured(u) ==
    \/ ~ users[u].is_active
    \/ ~ preferences[u].present
    \/ preferences[u].keywords = << >>
    \/ preferences[u].locations = << >>

\* C16: a cycle of a misconfigured user takes no rate-limiter slot, makes no
\* upstream request, writes no link and makes no send attempt.
C16_ConfigErrorsSkip ==
    \A t \in Threads :
        (cycle[t].user_id # NoUser /\ Misconfigured(cycle[t].user_id))
            => /\ cycle[t].acquired = 0
               /\ cycle[t].requests = 0
               /\ cycle[t].links_created = 0
               /\ cycle[t].send_attempts = 0

(***************************************************************************)
(* Properties of the threads running cycles.                               *)
(***************************************************************************)
\* the cycles executing at once
InFlight == { t \in Threads : Running(t) }

\* C17: a worker pool caps the cycles in flight below the number of threads
\* asked to run one: the scheduler's cycle and the run-now cycles are never
\* all executing at once.
C17_BoundedInFlight == Cardinality(InFlight) < Cardinality(Threads)

(***************************************************************************)
(* Properties of scoring and filtering.                                    *)
(***************************************************************************)
\* two successive calls of calculate_quality_score had the same arguments
ScoredTwice == probe.kind = "score" /\ probe.prev # NoScore

\* C18: the score is determined by the arguments of calculate_quality_score
\* (the time is an argument, not a clock reading): two calls with the same
\* posting and the same criteria return the same score.
C18_ScoreDeterminism == ScoredTwice => probe.score = probe.prev.score

\* C19: for one frame and criteria differing in the quality threshold only,
\* the rows kept at the higher threshold are among the rows kept at the
\* lower one, in the same order, and are no more numerous.
C19_FilterMonotone ==
    (probe.kind = "filter" /\ probe.t1 <= probe.t2)
        => /\ Range(probe.r2) \subseteq Range(probe.r1)
           /\ Len(probe.r2) <= Len(probe.r1)
           /\ probe.r2 = SeqFilter(probe.r1, Range(probe.r2))

C19_Witness ==
    /\ probe.kind = "filter"
    /\ probe.t1 < probe.t2
    /\ probe.r2 # << >>
    /\ Len(probe.r2) < Len(probe.r1)

(***************************************************************************)
(* Properties of the search loop of a cycle.                               *)
(***************************************************************************)
\* the URLs of the postings cycle c obtained that pass the user's filter
Obtained(c) ==
    LET prefs == preferences[c.user_id]
        frames == [ k \in DOMAIN c.fetched |->
                      filter_jobs_for_user(
                          [ i \in DOMAIN c.fetched[k] |->
                              Scored(c.fetched[k][i], prefs, c.started) ], prefs) ]
    IN  Range(Urls(Concat(frames))) \ {NoUrl}

\* the pairs of cycle c whose search failed although the source had postings
FailedPairs(c) ==
    { k \in DOMAIN c.fetched :
        c.fetched[k] = << >> /\ upstream[PairsOf(preferences[c.user_id])[k]] # << >> }

C21_Stagger ==
    LET snapshot == loops["l1"].pending
    IN  \A i, k \in DOMAIN snapshot :
            (snapshot[i].user_id # snapshot[k].user_id
               /\ snapshot[i].delay_minutes # snapshot[k].delay_minutes) => FALSE

(***************************************************************************)
(* Properties of the cost of a cycle.                                      *)
(***************************************************************************)
\* the pair the k-th request of a cycle is to be for: the first KeywordCap
\* keywords by the first LocationCap locations, keyword-major
ExpectedPair(prefs, k) ==
    LET nl == Min(Len(prefs.locations), LocationCap)
    IN  << prefs.keywords[((k - 1) \div nl) + 1], prefs.locations[((k - 1) % nl) + 1] >>

ExpectedRequests(prefs) ==
    Min(Len(prefs.keywords), KeywordCap) * Min(Len(prefs.locations), LocationCap)

\* C22: a cycle makes at most 6 adapter calls; its k-th call is for the k-th
\* pair of the first 3 keywords by the first 2 locations in keyword-major
\* order, and a cycle that has returned made one call for each such pair.
C22_BoundedCost ==
    \A t \in Threads :
        cycle[t].ran =>
            LET c == cycle[t]
                prefs == preferences[c.user_id]
            IN  /\ c.requests <= KeywordCap * LocationCap
                /\ c.requests = Len(c.fetched)
                /\ c.requests <= ExpectedRequests(prefs)
                /\ pc[t] # "search" => c.requests = ExpectedRequests(prefs)
                /\ \A k \in DOMAIN c.fetched :
                      c.fetched[k] # << >> =>
                          c.fetched[k] = upstream[ExpectedPair(prefs, k)]

\* C22 witness: a cycle of a user with four keywords and three locations
\* has returned after six answered calls
C22_Witness ==
    /\ Completed("sched")
    /\ Len(preferences[cycle["sched"].user_id].keywords) > KeywordCap
    /\ Len(preferences[cycle["sched"].user_id].locations) > LocationCap
    /\ cycle["sched"].requests = KeywordCap * LocationCap
    /\ \A k \in DOMAIN cycle["sched"].fetched : cycle["sched"].fetched[k] # << >>

(***************************************************************************)
(* Properties of the methods of the source adapter.                        *)
(***************************************************************************)
\* scrape_jobs is past its test for method 2
PastFallbackTest == ad.entry = "scrape_jobs" /\ ad.pc \in {"m2", "dedupe", "returned"}

\* C23, as stated: method 1 is called first, and method 2 is called iff
\* method 1 returned fewer than half of max_results.
C23_FallbackBelowHalf ==
    /\ ad.entry = "scrape_jobs" => ad.called # << >> /\ ad.called[1] = "method_1"
    /\ (PastFallbackTest /\ ad.pc # "m2") =>
          ("method_2" \in Range(ad.called) <=> 2 * ad.m1_yield < ad.max_results)

\* C23, amended: method 1 is called first, with max_results // 2 as its
\* limit; method 2 is called, once and after method 1 has returned, iff
\* method 1 returned fewer than max_results // 2 jobs (integer division).
C23_FallbackBelowIntegerHalf ==
    /\ ad.entry = "scrape_jobs" => ad.called # << >> /\ ad.called[1] = "method_1"
    /\ ad.pc = "m2" => ad.called = << "method_1" >>
    /\ (PastFallbackTest /\ ad.pc # "m2") =>
          /\ ad.called \in { << "method_1" >>, << "method_1", "method_2" >> }
          /\ "method_2" \in Range(ad.called) <=> ad.m1_yield < ad.max_results \div 2
          /\ ad.m1_yield <= ad.max_results \div 2

\* C23 witness: for an odd max_results method 1 returned max_results // 2
\* jobs and scrape_jobs returned without calling method 2
C23_Witness ==
    /\ ad.pc = "returned"
    /\ ad.entry = "scrape_jobs"
    /\ ad.max_results % 2 = 1
    /\ ad.m1_yield = ad.max_results \div 2
    /\ ad.m1_yield >= 1
    /\ ad.called = << "method_1" >>

\* method 1 has left its request loop
Method1Left == ad.pc \in {"m1_return", "m2", "dedupe", "returned"}

FirstIndex(s, url) == CHOOSE k \in DOMAIN s :
    /\ s[k].job_url = url
    /\ \A m \in 1 .. (k - 1) : s[m].job_url # url

\* d keeps, in the order of s, the first posting of s for every URL
FirstOccurrences(d, s) ==
    /\ \A i, k \in DOMAIN d : d[i].job_url = d[k].job_url => i = k
    /\ { d[i].job_url : i \in DOMAIN d } = { s[i].job_url : i \in DOMAIN s }
    /\ \A i \in DOMAIN d : d[i] = s[FirstIndex(s, d[i].job_url)]
    /\ \A i, k \in DOMAIN d :
          i < k => FirstIndex(s, d[i].job_url) < FirstIndex(s, d[k].job_url)

\* C25: the frame a cycle hands to save_jobs_for_user, and the list
\* scrape_jobs returns, hold one posting per URL: the first of the
\* concatenated results, in their order.
C25_FirstOccurrenceDedup ==
    /\ (ad.pc = "returned" /\ ad.entry = "scrape_jobs") =>
          FirstOccurrences(ad.result, ad.all_jobs)
    /\ \A t \in Threads :
          pc[t] \in {"save", "notify"} =>
              FirstOccurrences(cycle[t].combined_jobs, Concat(cycle[t].all_jobs))

\* s holds two different postings with one URL, the first of them in d
DroppedLater(d, s) ==
    \E i, k \in DOMAIN s :
        i < k /\ s[i].job_url = s[k].job_url /\ s[i] # s[k] /\ s[i] \in Range(d)

\* C25 witness: a cycle is saving a frame from which the later of two
\* postings with one URL and different titles was dropped
C25_Witness ==
    /\ pc["sched"] = "save"
    /\ DroppedLater(cycle["sched"].combined_jobs, Concat(cycle["sched"].all_jobs))

\* scrape_jobs returned a list from which the later of two jobs with one URL
\* was dropped
ScrapeDroppedLater ==
    /\ ad.pc = "returned"
    /\ ad.entry = "scrape_jobs"
    /\ DroppedLater(ad.result, ad.all_jobs)

\* C26: the score returned is the clamp to [0, 100] of 50, plus min(30, 10
\* per include keyword in the title), plus 20 for a location match, plus 10
\* for an allow-listed employer, plus the recency bonus, minus 20 once if
\* any exclude keyword is in the title.
C26_ScoreFormula ==
    probe.kind = "score" =>
        LET job == probe.job
            prefs == preferences[ProbeUser]
            kw == Min(30, 10 * CountWhere(prefs.keywords, job.title))
            loc == IF \E i \in DOMAIN prefs.locations : prefs.locations[i] \in job.location
                   THEN 20 ELSE 0
            comp == IF job.company \cap reputable_companies # {} THEN 10 ELSE 0
            penalty == IF \E i \in DOMAIN prefs.exclude_keywords :
                              prefs.exclude_keywords[i] \in job.title
                       THEN 20 ELSE 0
        IN  probe.score =
               Min(100, Max(0, BaseScore + kw + loc + comp
                                 + FreshnessBonus(job, probe.at) - penalty))

\* C27: a row of the frame is retained iff its score is at least the
\* threshold, its salary_min is absent or at least the salary floor, and no
\* exclude keyword occurs in its title.
C27_FilterPredicate ==
    probe.kind = "filter" =>
        LET prefs == preferences[ProbeUser]
        IN  \A i \in DOMAIN probe.frame :
               LET row == probe.frame[i]
               IN  row \in Range(probe.r1) <=>
                     /\ row.quality_score >= probe.t1
                     /\ row.salary_min = NoValue \/ row.salary_min >= prefs.min_salary
                     /\ ~ \E k \in DOMAIN prefs.exclude_keywords :
                             prefs.exclude_keywords[k] \in row.title

\* user_id has a link to the posting of job_url
Linked(user_id, job_url) ==
    \E uj \in user_jobs : \E j \in jobs :
        uj.job_id = j.id /\ uj.user_id = user_id /\ j.job_url = job_url

\* C28: every user_jobs link references a posting row that exists in the
\* store, whatever the interleaving of the cycles and wherever the store's
\* operations start or stop failing.
C28_NoOrphanedLink ==
    \A uj \in user_jobs : \E j \in jobs : j.id = uj.job_id

\* C28 witness: a write of a cycle failed for a posting that is in the store
\* and the cycle's user has no link to it, while the other thread's cycle,
\* for another user, linked the same posting
C28_Witness ==
    \E t \in Threads : \E t2 \in Threads \ {t} : \E j \in jobs :
        /\ cycle[t].ran /\ cycle[t2].ran
        /\ cycle[t2].user_id # cycle[t].user_id
        /\ j.job_url \in cycle[t].failed
        /\ ~ Linked(cycle[t].user_id, j.job_url)
        /\ j.job_url \in Range(Urls(cycle[t2].new_jobs))
        /\ Linked(cycle[t2].user_id, j.job_url)

\* C29: when save_jobs_for_user has returned, the rows it returns are exactly
\* those for which this call's link INSERT added a row (the rows of a frame
\* have distinct URLs, so the two sets are equal iff their sizes are).
C29_NetNewResult ==
    \A t \in Threads :
        pc[t] \in {"notify", "done"} =>
            Len(cycle[t].new_jobs) = cycle[t].links_created

\* a digest handed to the sender for user_id lists job_url, or a cycle of
\* user_id that has not reached its send yet holds job_url as net-new
InDigest(user_id, job_url) ==
    \/ \E msg \in BagToSet(outbox) :
          msg.user_id = user_id /\ job_url \in Range(msg.listed)
    \/ \E t \in Threads :
          /\ Running(t)
          /\ cycle[t].user_id = user_id
          /\ job_url \in Range(Urls(cycle[t].new_jobs))

\* the parts of C30 that do not depend on the digest: a posting whose write
\* failed is in neither the cycle's net-new rows nor its digest, and every
\* row of the cycle was processed
FailureContained(t) ==
    LET c == cycle[t]
    IN  /\ c.failed \cap Range(Urls(c.new_jobs)) = {}
        /\ c.failed \cap Range(c.digest.listed) = {}
        /\ Completed(t) => c.handled = c.rows

\* the postings of c whose write failed in the user's previous cycle and
\* that this cycle, whose writes all succeeded, fetched again
Recovered(t) ==
    IF Completed(t) /\ cycle[t].failed = {}
    THEN cycle[t].prev.failed \cap cycle[t].rows
    ELSE {}

====
